---- MODULE Spec2Model ----
(***************************************************************************)
(* Model of ext/event/backend/epoll.c: the epoll backend of the event      *)
(* library.  One backend instance (struct Event_Backend_EPoll), the        *)
(* fibers that call io_wait on it, the loop fiber that calls select, and   *)
(* the part of the kernel the backend talks to: the descriptor table, the  *)
(* interest list and the ready list of the epoll instance.                 *)
(*                                                                         *)
(* Kernel semantics used (epoll(7), epoll_ctl(2), dup(2), close(2)):       *)
(*  - an interest-list entry is keyed by (open file description, fd        *)
(*    number); EPOLL_CTL_ADD of a key that is present fails with EEXIST;   *)
(*  - EPOLLONESHOT disables the entry after one delivery, it stays in the  *)
(*    interest list until EPOLL_CTL_DEL or until every descriptor of its   *)
(*    open file description is closed;                                     *)
(*  - dup returns the lowest free descriptor number;                       *)
(*  - epoll_wait with a negative timeout blocks until an event is ready.   *)
(***************************************************************************)
EXTENDS Integers, Sequences, FiniteSets, TLC

\* ---------------------------------------------------------------- bounds
MaxWaiters == 2
MaxDups == 2
\* waiters registered beyond the capacity of one batch (SpecBatch)
BatchExtra == 2
\* the interest masks of SpecMask run from -MaskLimit to MaskLimit
MaskLimit == 20

\* ------------------------------------------------------ program constants
READABLE == 1
PRIORITY == 2
WRITABLE == 4
EPOLL_MAX_EVENTS == 1024

\* fibers that may call io_wait, the descriptors the host hands in
\* (the io objects' fileno), and the descriptor numbers of the process
\* (one descriptor is waited on: descriptor 0, of file 1; the process has
\* room for the queue's descriptor and MaxDups more)
Waiters == 1..MaxWaiters
IOs == {0}
FdNums == 0..(MaxDups + 1)

\* interest masks and timeouts the host passes in
Masks == {0, READABLE}
OsErrors == {"none", "add", "dup", "retry"}
Conditions == {{}, {"EPOLLIN"}, {"EPOLLRDHUP"}}

VARIABLES
  bstate,      \* lifecycle of the instance: "allocated" | "initialized" | "freed"
  loop,        \* data->loop
  descriptor,  \* data->descriptor
  fdtable,     \* kernel: descriptor number -> 0 (free) | -1 (epoll instance) | file id
  interest,    \* kernel: interest list of the epoll instance, key <<file, fd>> -> entry
  rdllist,     \* kernel: ready list, the armed and ready keys in the order they became ready
  cond,        \* kernel: file id -> the readiness conditions that currently hold
  fstate,      \* fiber -> "out" | "suspended" | "running"
  frame,       \* fiber -> locals of its suspended io_wait call (descriptor, duplicate, mask)
  sel,         \* the select call of the loop fiber: pc, timeout, events, count, i
  out          \* what the latest step let its caller observe (a return, a raise, a resume)

vars == <<bstate, loop, descriptor, fdtable, interest, rdllist, cond,
          fstate, frame, sel, out>>

\* ------------------------------------------------------------- kernel
EmptyMap == [k \in {} |-> 0]

Min(S) == CHOOSE n \in S : \A m \in S : n <= m

\* every ordering of a finite set
Orderings(S) ==
  {s \in [1..Cardinality(S) -> S] : \A a, b \in 1..Cardinality(S) : a # b => s[a] # s[b]}

SeqRange(s) == {s[n] : n \in 1..Len(s)}

\* dup(2), epoll_create(2): the lowest free descriptor number, -1 when the
\* table is full (EMFILE) or the kernel refuses (oserr)
LowestFree(tbl, oserr) ==
  LET free == {n \in DOMAIN tbl : tbl[n] = 0}
  IN IF oserr \/ free = {} THEN -1 ELSE Min(free)

\* errno of epoll_ctl(epfd, EPOLL_CTL_ADD, fd, ...), "OK" when it succeeds
EpollCtlErrno(tbl, ilist, epfd, fd, oserr) ==
  IF epfd \notin DOMAIN tbl \/ fd \notin DOMAIN tbl THEN "EBADF"
  ELSE IF tbl[epfd] # -1 \/ tbl[fd] = 0 THEN "EBADF"
  ELSE IF tbl[fd] = -1 THEN "EINVAL"
  ELSE IF <<tbl[fd], fd>> \in DOMAIN ilist THEN "EEXIST"
  ELSE IF oserr THEN "ENOMEM"
  ELSE "OK"

\* an armed entry whose file shows one of the conditions it asks for
EntryReady(e, c) == e.armed /\ (e.events \cap c) # {}

\* the interest list after close(fd): entries go only when no descriptor of
\* their open file description is left
InterestAfterClose(tbl, ilist, fd) ==
  LET t2 == [tbl EXCEPT ![fd] = 0]
      keep == {k \in DOMAIN ilist : \E n \in DOMAIN t2 : t2[n] = k[1]}
  IN [k \in keep |-> ilist[k]]

\* ------------------------------------------------- io_wait, lines 92-146
NoFrame == [descriptor |-> -1, duplicate |-> -1, mask |-> 0]

\* the outcome of a step: kind is "none", "suspended" (io_wait reached its
\* transfer), "failed" (io_wait raised), "resumed" (select transferred to a
\* fiber), "returned" (select returned value) or "raised" (select raised,
\* value being what epoll_wait had returned)
Quiet ==
  [kind |-> "none", w |-> 0, op |-> "", errno |-> "", call |-> "",
   conflict |-> "none", value |-> 0, expected |-> TRUE]

Bit(mask, b) == (mask \div b) % 2 = 1

\* (a translation that leaves EPOLLONESHOT out)
NativeEventsLevel(mask) ==
  (IF Bit(mask, READABLE) THEN {"EPOLLIN"} ELSE {})
  \cup (IF Bit(mask, PRIORITY) THEN {"EPOLLPRI"} ELSE {})
  \cup (IF Bit(mask, WRITABLE) THEN {"EPOLLOUT"} ELSE {})
  \cup {"EPOLLRDHUP"}

\* (a translation that compares the mask with each kind instead of
\* testing its bit)
NativeEventsByValue(mask) ==
  (IF mask = READABLE THEN {"EPOLLIN"} ELSE {})
  \cup (IF mask = PRIORITY THEN {"EPOLLPRI"} ELSE {})
  \cup (IF mask = WRITABLE THEN {"EPOLLOUT"} ELSE {})
  \cup {"EPOLLRDHUP"}
  \cup {"EPOLLONESHOT"}

\* lines 101-116
NativeEvents(mask) ==
  (IF Bit(mask, READABLE) THEN {"EPOLLIN"} ELSE {})
  \cup (IF Bit(mask, PRIORITY) THEN {"EPOLLPRI"} ELSE {})
  \cup (IF Bit(mask, WRITABLE) THEN {"EPOLLOUT"} ELSE {})
  \cup {"EPOLLRDHUP"}
  \cup {"EPOLLONESHOT"}

\* (a payload that is the same for every fiber)
EventPtrShared(fiber) == 1

\* line 118
EventPtr(fiber) == fiber

\* line 98
Fileno(io) == io

\* a fiber that can make a call: the one the loop has transferred to, or,
\* between select calls, any fiber the scheduler runs
NoneRunning == {w \in DOMAIN fstate : fstate[w] = "running"} = {}
CanRun(w) ==
  \/ fstate[w] = "running"
  \/ fstate[w] = "out" /\ NoneRunning /\ sel.pc = "idle"

\* the entry that makes the first add fail: "live" when it is armed for
\* another fiber that is suspended on it, "stale" otherwise
ConflictKind(w, fd) ==
  LET k == <<fdtable[fd], fd>>
  IN IF k \notin DOMAIN interest THEN "none"
     ELSE IF /\ interest[k].armed
             /\ interest[k].owner # w
             /\ fstate[interest[k].owner] = "suspended"
          THEN "live" ELSE "stale"

\* line 123
IsConflict(result, errno) == result = -1 /\ errno = "EEXIST"

\* line 129
DupFailed(fd) == fd = -1

\* (a check that lets a failed add through)
AddFailedNever(result) == FALSE

\* line 135
AddFailed(result) == result = -1

\* lines 130 and 136: the operation rb_sys_fail names
FailName(call) == IF call = "dup" THEN "dup" ELSE "epoll_ctl"

\* lines 121-137: the native calls of one io_wait call and what they leave,
\* oserr naming the call the kernel refuses for want of resources, if any:
\* raise (the operation named by rb_sys_fail, "" when the call goes on to
\* the transfer), the last native call made and its errno, the descriptor
\* table, the descriptor of the last add and the duplicate
Register(fd, oserr) ==
  LET e1 == EpollCtlErrno(fdtable, interest, descriptor, fd, oserr = "add")
      result1 == IF e1 = "OK" THEN 0 ELSE -1
      dupfd == LowestFree(fdtable, oserr = "dup")
      tbl2 == IF dupfd >= 0 THEN [fdtable EXCEPT ![dupfd] = fdtable[fd]] ELSE fdtable
      e2 == EpollCtlErrno(tbl2, interest, descriptor, dupfd, oserr = "retry")
      result2 == IF e2 = "OK" THEN 0 ELSE -1
  IN IF ~IsConflict(result1, e1)
       THEN [raise |-> IF AddFailed(result1) THEN FailName("add") ELSE "",
             call |-> "add", errno |-> e1,
             table |-> fdtable, fd |-> fd, duplicate |-> -1]
     ELSE IF DupFailed(dupfd)
       THEN [raise |-> FailName("dup"), call |-> "dup", errno |-> "EMFILE",
             table |-> fdtable, fd |-> dupfd, duplicate |-> dupfd]
     ELSE [raise |-> IF AddFailed(result2) THEN FailName("retry") ELSE "",
           call |-> "retry", errno |-> e2,
           table |-> tbl2, fd |-> dupfd, duplicate |-> dupfd]

\* (an io_wait whose entry, added while select walks its batch, joins
\* that batch)
IoWaitIntoBatch(w, io, mask, oserr) ==
  /\ bstate = "initialized"
  /\ CanRun(w)
  /\ LET r == Register(Fileno(io), oserr)
         e == [events |-> NativeEvents(mask), ptr |-> EventPtr(w),
               armed |-> TRUE, owner |-> w]
         k == <<r.table[r.fd], r.fd>>
         kind == ConflictKind(w, Fileno(io))
     IN /\ fdtable' = r.table
        /\ IF r.errno = "OK"
             THEN /\ interest' = (k :> e) @@ interest
                  /\ rdllist' = IF EntryReady(e, cond[k[1]])
                                  THEN Append(rdllist, k) ELSE rdllist
                  /\ sel' = IF sel.pc = "loop"
                              THEN [sel EXCEPT
                                      !.events = Append(@, [events |-> e.events,
                                                            ptr |-> e.ptr, key |-> k]),
                                      !.count = @ + 1]
                              ELSE sel
             ELSE UNCHANGED <<interest, rdllist, sel>>
        /\ IF r.raise = ""
             THEN /\ fstate' = [fstate EXCEPT ![w] = "suspended"]
                  /\ frame' = [frame EXCEPT ![w] =
                       [descriptor |-> r.fd, duplicate |-> r.duplicate, mask |-> mask]]
                  /\ out' = [Quiet EXCEPT !.kind = "suspended", !.w = w,
                               !.call = r.call, !.errno = r.errno, !.conflict = kind]
             ELSE /\ out' = [Quiet EXCEPT !.kind = "failed", !.w = w, !.op = r.raise,
                               !.call = r.call, !.errno = r.errno, !.conflict = kind]
                  /\ UNCHANGED <<fstate, frame>>
  /\ UNCHANGED <<bstate, loop, descriptor, cond>>

\* (an io_wait that transfers to the loop before it has added its entry)
IoWaitYieldFirst(w, io, mask, oserr) ==
  /\ bstate = "initialized"
  /\ CanRun(w)
  /\ fstate' = [fstate EXCEPT ![w] = "suspended"]
  /\ frame' = [frame EXCEPT ![w] =
       [descriptor |-> Fileno(io), duplicate |-> -1, mask |-> mask]]
  /\ out' = [Quiet EXCEPT !.kind = "suspended", !.w = w, !.call = "add",
               !.errno = "OK"]
  /\ UNCHANGED <<bstate, loop, descriptor, fdtable, interest, rdllist, cond, sel>>

\* Event_Backend_EPoll_io_wait up to the transfer to the loop (line 139), or
\* to the rb_sys_fail that ends the call
IoWait(w, io, mask, oserr) ==
  /\ bstate = "initialized"
  /\ CanRun(w)
  /\ LET r == Register(Fileno(io), oserr)
         e == [events |-> NativeEvents(mask), ptr |-> EventPtr(w),
               armed |-> TRUE, owner |-> w]
         kind == ConflictKind(w, Fileno(io))
     IN /\ fdtable' = r.table
        /\ IF r.errno = "OK"
             THEN LET k == <<r.table[r.fd], r.fd>>
                  IN /\ interest' = (k :> e) @@ interest
                     /\ rdllist' = IF EntryReady(e, cond[k[1]])
                                     THEN Append(rdllist, k) ELSE rdllist
             ELSE UNCHANGED <<interest, rdllist>>
        /\ IF r.raise = ""
             THEN /\ fstate' = [fstate EXCEPT ![w] = "suspended"]
                  /\ frame' = [frame EXCEPT ![w] =
                       [descriptor |-> r.fd, duplicate |-> r.duplicate, mask |-> mask]]
                  /\ out' = [Quiet EXCEPT !.kind = "suspended", !.w = w,
                               !.call = r.call, !.errno = r.errno, !.conflict = kind]
             ELSE /\ out' = [Quiet EXCEPT !.kind = "failed", !.w = w, !.op = r.raise,
                               !.call = r.call, !.errno = r.errno, !.conflict = kind]
                  /\ UNCHANGED <<fstate, frame>>
  /\ UNCHANGED <<bstate, loop, descriptor, cond, sel>>

\* a fiber the loop has transferred to gives control back without calling
\* io_wait again
FiberYield(w) ==
  /\ fstate[w] = "running"
  /\ fstate' = [fstate EXCEPT ![w] = "out"]
  /\ out' = Quiet
  /\ UNCHANGED <<bstate, loop, descriptor, fdtable, interest, rdllist, cond,
                 frame, sel>>

\* ------------------------------------------------- lifecycle, lines 45-90
\* Event_Backend_EPoll_initialize: epoll_create(1), its result stored as is
Initialize(oserr) ==
  /\ bstate = "allocated"
  /\ LET q == LowestFree(fdtable, oserr)
     IN /\ descriptor' = q
        /\ fdtable' = IF q >= 0 THEN [fdtable EXCEPT ![q] = -1] ELSE fdtable
  /\ loop' = "loop"
  /\ bstate' = "initialized"
  /\ out' = Quiet
  /\ UNCHANGED <<interest, rdllist, cond, fstate, frame, sel>>

\* Event_Backend_EPoll_initialize called on a backend that is initialized
\* already (the method has no guard): the handle of a new queue replaces
\* the stored one, which is not closed. The interest list and the ready
\* list are those of the queue the handle names, and the new queue has none
Reinitialize(oserr) ==
  /\ bstate = "initialized"
  /\ sel.pc = "idle"
  /\ NoneRunning
  /\ LET q == LowestFree(fdtable, oserr)
     IN /\ descriptor' = q
        /\ fdtable' = IF q >= 0 THEN [fdtable EXCEPT ![q] = -1] ELSE fdtable
  /\ loop' = "loop"
  /\ interest' = EmptyMap
  /\ rdllist' = <<>>
  /\ out' = Quiet
  /\ UNCHANGED <<bstate, cond, fstate, frame, sel>>

\* (a teardown that transfers to the fibers it finds suspended)
TypeFreeWaking ==
  /\ bstate \in {"allocated", "initialized"}
  /\ sel.pc = "idle"
  /\ NoneRunning
  /\ IF descriptor >= 0
       THEN /\ fdtable' = [fdtable EXCEPT ![descriptor] = 0]
            /\ interest' = EmptyMap
            /\ rdllist' = <<>>
       ELSE UNCHANGED <<fdtable, interest, rdllist>>
  /\ bstate' = "freed"
  /\ out' = Quiet
  /\ fstate' = [w \in DOMAIN fstate |->
                 IF fstate[w] = "suspended" THEN "running" ELSE fstate[w]]
  /\ UNCHANGED <<loop, descriptor, cond, frame, sel>>

\* Event_Backend_EPoll_Type_free: closes the queue when the handle is valid;
\* the kernel drops the interest list with the instance
TypeFree ==
  /\ bstate \in {"allocated", "initialized"}
  /\ sel.pc = "idle"
  /\ NoneRunning
  /\ IF descriptor >= 0
       THEN /\ fdtable' = [fdtable EXCEPT ![descriptor] = 0]
            /\ interest' = EmptyMap
            /\ rdllist' = <<>>
       ELSE UNCHANGED <<fdtable, interest, rdllist>>
  /\ bstate' = "freed"
  /\ out' = Quiet
  /\ UNCHANGED <<loop, descriptor, cond, fstate, frame, sel>>

\* ----------------------------------------- make_timeout, lines 148-165
\* a duration is nil, a Fixnum v, a Float of v halves, or another object
Durations ==
  { [kind |-> "nil", v |-> 0],
    [kind |-> "fixnum", v |-> 0],
    [kind |-> "fixnum", v |-> 2147484],
    [kind |-> "float", v |-> 1],
    [kind |-> "other", v |-> 0] }

\* n * 1000 as a long, returned through int: the low 32 bits, signed
\* (16-bit limbs keep every intermediate value inside 32 bits)
LongTimes1000ToInt(n) ==
  LET lo == (n % 65536) * 1000
      hi == ((n \div 65536) * 1000 + (lo \div 65536)) % 65536
  IN (IF hi >= 32768 THEN hi - 65536 ELSE hi) * 65536 + (lo % 65536)

\* value * 1000 converted from double to int: exact when it fits, undefined
\* behaviour (any int the build produces) when it does not
DoubleTimes1000ToInt(halves) ==
  IF halves >= -4294967 /\ halves <= 4294967
    THEN {halves * 500}
    ELSE {-2147483647 - 1, -1, 0, 2147483647}

\* (a conversion that takes an object of no known shape for zero)
make_timeoutLenient(duration) ==
  IF duration.kind = "nil" THEN {-1}
  ELSE IF duration.kind = "fixnum" THEN {LongTimes1000ToInt(duration.v)}
  ELSE IF duration.kind = "float" THEN DoubleTimes1000ToInt(duration.v)
  ELSE {0}

\* the ints make_timeout can return; the empty set when it raises
make_timeout(duration) ==
  IF duration.kind = "nil" THEN {-1}
  ELSE IF duration.kind = "fixnum" THEN {LongTimes1000ToInt(duration.v)}
  ELSE IF duration.kind = "float" THEN DoubleTimes1000ToInt(duration.v)
  ELSE {}

\* ----------------------------------------------- select, lines 167-185
\* the frame of select while it is not waiting holds no duration
NoDuration == [kind |-> "nil", v |-> 0]

Idle ==
  [pc |-> "idle", duration |-> NoDuration, finite |-> FALSE, timeout |-> 0,
   events |-> <<>>, count |-> 0, i |-> 0, log |-> <<>>]

\* (a capacity larger than the events array)
MaxEventsTwice == EPOLL_MAX_EVENTS + EPOLL_MAX_EVENTS

\* line 173: the capacity handed to epoll_wait
MaxEvents == EPOLL_MAX_EVENTS

\* (a check that takes no result for a failure)
WaitFailedNever(count) == FALSE

\* (a check that takes zero events for a failure)
WaitFailedOrEmpty(count) == count <= 0

\* line 175
WaitFailed(count) == count = -1

\* line 179
LoopCond(i, count) == i < count

\* line 184
ReturnValue(count) == count

\* (a loop that walks the batch from its end)
NextEventBackwards(events, count, i) == events[count - i]

\* line 180: events[i], with i counted from 0 in the source
NextEvent(events, count, i) == events[i + 1]

\* an entry the kernel has disabled (EPOLLONESHOT, after its delivery): it
\* keeps its place in the interest list and reports nothing any more
Disabled == [events |-> {"EPOLLONESHOT"}, ptr |-> 0, armed |-> FALSE, owner |-> 0]

\* Event_Backend_EPoll_select up to the epoll_wait call: the timeout is
\* computed first, and a duration of no known shape raises
SelectCall(duration) ==
  /\ bstate = "initialized"
  /\ sel.pc = "idle"
  /\ NoneRunning
  /\ IF make_timeout(duration) = {}
       THEN /\ sel' = Idle
            /\ out' = [Quiet EXCEPT !.kind = "raised", !.op = "make_timeout"]
       ELSE /\ \E t \in make_timeout(duration) :
                 sel' = [sel EXCEPT !.pc = "waiting", !.duration = duration,
                                    !.timeout = t,
                                    !.finite = (duration.kind # "nil")]
            /\ out' = Quiet
  /\ UNCHANGED <<bstate, loop, descriptor, fdtable, interest, rdllist, cond,
                 fstate, frame>>

\* epoll_wait returns: -1 on an error, the head of the ready list when
\* there is one, 0 when the timeout runs out; with a negative timeout and
\* nothing ready it does not return
EpollWait(intr) ==
  /\ sel.pc = "waiting"
  /\ LET bad == descriptor \notin DOMAIN fdtable \/ fdtable[descriptor] # -1
         n == IF Len(rdllist) < MaxEvents THEN Len(rdllist) ELSE MaxEvents
         count == IF bad \/ intr THEN -1 ELSE n
         got == SubSeq(rdllist, 1, n)
         rest == SubSeq(rdllist, n + 1, Len(rdllist))
         oneshot(k) == "EPOLLONESHOT" \in interest[k].events
         again == SelectSeq(got, LAMBDA k : ~oneshot(k))
     IN /\ count # 0 \/ sel.timeout >= 0
        /\ IF WaitFailed(count)
             THEN /\ sel' = Idle
                  /\ out' = [Quiet EXCEPT !.kind = "raised", !.op = "epoll_wait",
                                           !.value = count]
                  /\ UNCHANGED <<interest, rdllist>>
             ELSE /\ sel' = [sel EXCEPT
                       !.pc = "loop", !.duration = NoDuration,
                       !.finite = FALSE, !.timeout = 0,
                       !.count = count, !.i = 0, !.log = <<>>,
                       !.events = [j \in 1..n |->
                          [events |-> interest[got[j]].events \cap cond[got[j][1]],
                           ptr |-> interest[got[j]].ptr,
                           key |-> got[j]]]]
                  /\ out' = Quiet
                  /\ interest' = [k \in DOMAIN interest |->
                       IF k \in SeqRange(got) /\ oneshot(k)
                         THEN Disabled ELSE interest[k]]
                  /\ rdllist' = rest \o again
  /\ UNCHANGED <<bstate, loop, descriptor, fdtable, cond, fstate, frame>>

\* lines 180-181: the loop transfers to the fiber of the next event. A
\* fiber suspended in io_wait goes on at line 141: it closes its duplicate
\* and returns. expected: the fiber was suspended on the entry delivered
Dispatch ==
  /\ sel.pc = "loop"
  /\ NoneRunning
  /\ LoopCond(sel.i, sel.count)
  /\ LET ev == NextEvent(sel.events, sel.count, sel.i)
         fiber == ev.ptr
         dup == frame[fiber].duplicate
     IN /\ sel' = [sel EXCEPT !.i = sel.i + 1, !.log = Append(sel.log, fiber)]
        /\ out' = [Quiet EXCEPT !.kind = "resumed", !.w = fiber,
                     !.expected = /\ fstate[fiber] = "suspended"
                                  /\ frame[fiber].descriptor = ev.key[2]]
        /\ fstate' = [fstate EXCEPT ![fiber] = "running"]
        /\ frame' = [frame EXCEPT ![fiber] = NoFrame]
        /\ IF fstate[fiber] = "suspended" /\ dup >= 0
             THEN /\ fdtable' = [fdtable EXCEPT ![dup] = 0]
                  /\ interest' = InterestAfterClose(fdtable, interest, dup)
                  /\ rdllist' = SelectSeq(rdllist,
                       LAMBDA k : k \in DOMAIN InterestAfterClose(fdtable, interest, dup))
             ELSE UNCHANGED <<fdtable, interest, rdllist>>
  /\ UNCHANGED <<bstate, loop, descriptor, cond>>

\* line 184: the loop is over, select returns the count
SelectReturn ==
  /\ sel.pc = "loop"
  /\ NoneRunning
  /\ ~LoopCond(sel.i, sel.count)
  /\ sel' = Idle
  /\ out' = [Quiet EXCEPT !.kind = "returned", !.value = ReturnValue(sel.count)]
  /\ UNCHANGED <<bstate, loop, descriptor, fdtable, interest, rdllist, cond,
                 fstate, frame>>

\* ------------------------------------------------------- environment
\* the readiness of a file changes: entries that become ready join the
\* ready list (in any order), entries no longer ready leave it
SetCond(f, c) ==
  /\ cond[f] # c
  /\ cond' = [cond EXCEPT ![f] = c]
  /\ LET ready(k) == k[1] # f \/ EntryReady(interest[k], c)
         still == SelectSeq(rdllist, ready)
         new == {k \in DOMAIN interest :
                   k[1] = f /\ EntryReady(interest[k], c) /\ k \notin SeqRange(rdllist)}
     IN \E order \in Orderings(new) : rdllist' = still \o order
  /\ out' = Quiet
  /\ UNCHANGED <<bstate, loop, descriptor, fdtable, interest, fstate, frame, sel>>

\* ----------------------------------------------------- specification
\* the state after Event_Backend_EPoll_allocate (lines 72-80)
Init ==
  /\ bstate = "allocated"
  /\ loop = "nil"
  /\ descriptor = -1
  /\ fdtable = [n \in FdNums |-> IF n \in IOs THEN n + 1 ELSE 0]
  /\ interest = EmptyMap
  /\ rdllist = <<>>
  /\ cond = [f \in {Fileno(io) + 1 : io \in IOs} |-> {}]
  /\ fstate = [w \in Waiters |-> "out"]
  /\ frame = [w \in Waiters |-> NoFrame]
  /\ sel = Idle
  /\ out = Quiet

Next ==
  \/ \E oserr \in BOOLEAN : Initialize(oserr)
  \/ TypeFree
  \/ \E w \in Waiters, io \in IOs, mask \in Masks, oserr \in OsErrors :
       IoWait(w, io, mask, oserr)
  \/ \E w \in Waiters : FiberYield(w)
  \/ \E d \in Durations : SelectCall(d)
  \/ \E intr \in BOOLEAN : EpollWait(intr)
  \/ Dispatch
  \/ SelectReturn
  \/ \E f \in DOMAIN cond, c \in Conditions : SetCond(f, c)

Spec == Init /\ [][Next]_vars

\* ------------------------------------- a backend initialized more than once
LifecycleNext ==
  \/ Next
  \/ \E oserr \in BOOLEAN : Reinitialize(oserr)

SpecLifecycle == Init /\ [][LifecycleNext]_vars

\* ------------------------------------------- one waiter, any interest mask
\* the int values NUM2INT(events) can give (line 101), near zero
WideMasks == (-MaskLimit)..MaskLimit

MaskNext ==
  \/ Initialize(FALSE)
  \/ \E mask \in WideMasks : IoWait(1, 0, mask, "none")
  \/ \E f \in DOMAIN cond, c \in Conditions : SetCond(f, c)
  \/ SelectCall([kind |-> "fixnum", v |-> 0])
  \/ EpollWait(FALSE)
  \/ Dispatch
  \/ FiberYield(1)
  \/ SelectReturn

SpecMask == Init /\ [][MaskNext]_vars

\* ------------------------------------------------ a queue with many waiters
\* EPOLL_MAX_EVENTS + BatchExtra fibers are suspended in io_wait on
\* descriptor 0: the first on descriptor 0 itself, each later one on its
\* own duplicate. The first `ready` of them wait for READABLE, the others
\* for WRITABLE; the file is readable, and the ready list holds the
\* readable entries in the order of their registration.
BatchWaiters == 1..(EPOLL_MAX_EVENTS + BatchExtra)
BatchFd(w) == IF w = 1 THEN 0 ELSE w
BatchMask(w, ready) == IF w <= ready THEN READABLE ELSE WRITABLE

BatchInit ==
  \E ready \in (EPOLL_MAX_EVENTS - 1)..(EPOLL_MAX_EVENTS + BatchExtra) :
    /\ bstate = "initialized"
    /\ loop = "loop"
    /\ descriptor = 1
    /\ fdtable = [n \in 0..(EPOLL_MAX_EVENTS + BatchExtra) |-> IF n = 1 THEN -1 ELSE 1]
    /\ interest = [k \in {<<1, BatchFd(w)>> : w \in BatchWaiters} |->
                    LET w == IF k[2] = 0 THEN 1 ELSE k[2]
                    IN [events |-> NativeEvents(BatchMask(w, ready)),
                        ptr |-> EventPtr(w), armed |-> TRUE, owner |-> w]]
    /\ rdllist = [j \in 1..ready |-> <<1, BatchFd(j)>>]
    /\ cond = [f \in {1} |-> {"EPOLLIN"}]
    /\ fstate = [w \in BatchWaiters |-> "suspended"]
    /\ frame = [w \in BatchWaiters |->
                 [descriptor |-> BatchFd(w),
                  duplicate |-> IF w = 1 THEN -1 ELSE BatchFd(w),
                  mask |-> BatchMask(w, ready)]]
    /\ sel = Idle
    /\ out = Quiet

BatchNext ==
  \/ SelectCall([kind |-> "fixnum", v |-> 0])
  \/ \E intr \in BOOLEAN : EpollWait(intr)
  \/ Dispatch
  \/ sel.i > 0 /\ FiberYield(sel.log[sel.i])
  \/ SelectReturn

SpecBatch == BatchInit /\ [][BatchNext]_vars

\* ================================================================ claims
Suspended == {w \in DOMAIN fstate : fstate[w] = "suspended"}

\* the readiness condition a fiber waits for with an interest mask (the
\* semantic kinds of the mask, and the peer having closed)
Satisfied(mask, c) ==
  \/ Bit(mask, READABLE) /\ "EPOLLIN" \in c
  \/ Bit(mask, PRIORITY) /\ "EPOLLPRI" \in c
  \/ Bit(mask, WRITABLE) /\ "EPOLLOUT" \in c
  \/ "EPOLLRDHUP" \in c

FileOf(w) == fdtable[frame[w].descriptor]

\* C1: once a waiter is suspended in io_wait and the condition it waits
\* for holds, a select whose wait succeeds takes its event into the batch
\* (the batch has room in this specification), transfers to every fiber of
\* the batch once before it returns, and every transfer goes to the fiber
\* that is suspended on the entry delivered, to no other.
C1_ResumesTheWaiterOnce ==
  [][ /\ (sel.pc = "waiting" /\ sel'.pc = "loop" /\ Len(rdllist) <= EPOLL_MAX_EVENTS) =>
           \A w \in Suspended :
             Satisfied(frame[w].mask, cond[FileOf(w)]) =>
               Cardinality({j \in 1..sel'.count : sel'.events[j].ptr = w}) = 1
      /\ (sel.pc = "loop" /\ sel'.pc = "loop" /\ sel'.i # sel.i) =>
           /\ out'.kind = "resumed" /\ out'.expected
           /\ out'.w \in Suspended /\ fstate'[out'.w] = "running"
           /\ \A w \in DOMAIN fstate : w # out'.w => fstate'[w] = fstate[w]
      /\ (sel.pc = "loop" /\ sel'.pc = "idle") =>
           /\ Len(sel.log) = sel.count
           /\ \A j \in 1..sel.count : sel.log[j] = sel.events[j].ptr
    ]_vars

\* C1 witness: a waiter was resumed for its event while another waiter
\* stays suspended
C1_Witness ==
  /\ out.kind = "resumed" /\ out.expected
  /\ \E w \in Suspended : w # out.w

\* C2: no io_wait call fails because the descriptor it adds is already
\* present in the queue.
C2_ConflictNeverSurfaces ==
  ~(out.kind = "failed" /\ out.errno = "EEXIST")

\* C3: an io_wait call on a descriptor that is registered for another,
\* suspended waiter does not fail (unless the kernel is out of
\* descriptors or memory): both waiters end up suspended.
C3_SecondWaiterRegisters ==
  (out.kind = "failed" /\ out.conflict = "live") => out.errno \in {"EMFILE", "ENOMEM"}

\* C4: a fiber that is not suspended in io_wait (it was resumed and has not
\* registered again) is never transferred to by select, whatever the
\* readiness of its descriptor.
C4_OneShot ==
  [][ (sel.pc = "loop" /\ sel'.pc = "loop" /\ sel'.i # sel.i) =>
        fstate[sel'.log[sel'.i]] = "suspended" ]_vars

\* C4 witness: a select call returned 0 although the file shows a condition
\* every registration asks for and the queue holds an entry that fired
C4_Witness ==
  /\ out.kind = "returned" /\ out.value = 0
  /\ \E k \in DOMAIN interest : interest[k] = Disabled /\ "EPOLLRDHUP" \in cond[k[1]]

\* C5: an initialized backend never holds an invalid queue handle (create
\* fails when the queue cannot be opened).
C5_CreateFails ==
  bstate = "initialized" => descriptor >= 0

\* C6: when the last native call of an io_wait call fails, the call raises,
\* naming that operation, and the caller is not suspended; it goes on to the
\* transfer only when that call succeeded.
C6_FailureIsRaised ==
  /\ out.kind = "suspended" => out.errno = "OK"
  /\ out.kind = "failed" =>
       /\ out.errno # "OK"
       /\ out.op = (IF out.call = "dup" THEN "dup" ELSE "epoll_ctl")
       /\ fstate[out.w] # "suspended"

\* C6 witness: the retried add failed and the call raised
C6_Witness ==
  out.kind = "failed" /\ out.call = "retry" /\ out.op = "epoll_ctl"

\* C7: the queue holds exactly one entry per waiter suspended in io_wait.
C7_OneEntryPerWaiter ==
  bstate = "initialized" => Cardinality(DOMAIN interest) = Cardinality(Suspended)

\* the entries of suspended waiters whose condition holds, and the entries
\* of the batch that select has still to dispatch
DueKeys ==
  {<<FileOf(w), frame[w].descriptor>> :
     w \in {v \in Suspended : Satisfied(frame[v].mask, cond[FileOf(v)])}}
PendingKeys == {sel.events[j].key : j \in (sel.i + 1)..sel.count}

\* C8: one select call takes at most EPOLL_MAX_EVENTS events, transfers to
\* at most that many fibers and returns at most that count; an event that
\* is ready and was not taken stays in the ready list, from whose head the
\* next wait takes its batch.
C8_BatchCap ==
  /\ sel.count <= EPOLL_MAX_EVENTS
  /\ Len(sel.events) <= EPOLL_MAX_EVENTS
  /\ Len(sel.log) <= EPOLL_MAX_EVENTS
  /\ out.kind = "returned" => out.value <= EPOLL_MAX_EVENTS
  /\ DueKeys \subseteq (SeqRange(rdllist) \cup PendingKeys)

\* C8 witness: more than EPOLL_MAX_EVENTS events were ready, the wait of a
\* select call took EPOLL_MAX_EVENTS of them and left the others in the
\* ready list
C8_Witness ==
  /\ sel.pc = "loop" /\ sel.count = EPOLL_MAX_EVENTS
  /\ Len(rdllist) > 0

\* C9: a select call given a duration that is not nil does not wait
\* without a deadline: when nothing is ready its wait has a timeout that
\* runs out, and the call returns.
C9_FiniteTimeoutReturns ==
  (sel.pc = "waiting" /\ sel.finite /\ descriptor >= 0 /\ rdllist = <<>>) =>
    sel.timeout >= 0

\* C10: a wait that returns zero events is no error: the call resumes no
\* fiber, leaves the interest list, the ready list and the fibers as they
\* were, and returns 0.
C10_ZeroEvents ==
  [][ /\ (/\ sel.pc = "waiting" /\ rdllist = <<>> /\ sel'.pc # "waiting"
          /\ ~(out'.kind = "raised" /\ out'.value = -1)) =>
           /\ sel'.pc = "loop" /\ sel'.count = 0 /\ out'.kind = "none"
           /\ interest' = interest /\ rdllist' = rdllist
           /\ fstate' = fstate /\ frame' = frame
      /\ (sel.pc = "loop" /\ sel.count = 0) =>
           \/ /\ sel'.pc = "idle" /\ out'.kind = "returned" /\ out'.value = 0
              /\ interest' = interest /\ rdllist' = rdllist
              /\ fstate' = fstate /\ frame' = frame
           \/ /\ sel' = sel /\ interest' = interest
              /\ fstate' = fstate /\ frame' = frame
    ]_vars

\* C10 witness: select returned 0 while a waiter stays suspended on its
\* entry
C10_Witness ==
  /\ out.kind = "returned" /\ out.value = 0
  /\ \E w \in Suspended : <<FileOf(w), frame[w].descriptor>> \in DOMAIN interest

\* C11: the timeout handed to epoll_wait is the duration in milliseconds,
\* exactly: N * 1000 for the Fixnum N and N * 1000 + 500 for the Float
\* N.5 (a Float of h halves gives h * 500), also when N * 1000 does not
\* fit an int. (Stated through quotient and remainder, so that no product
\* leaves the range of int.)
C11_ExactMilliseconds ==
  sel.pc = "waiting" =>
    /\ sel.duration.kind = "fixnum" =>
         sel.timeout \div 1000 = sel.duration.v /\ sel.timeout % 1000 = 0
    /\ sel.duration.kind = "float" =>
         sel.timeout \div 500 = sel.duration.v /\ sel.timeout % 500 = 0

\* C12: select(nil) waits with the timeout -1; a duration that is neither
\* nil, a Fixnum nor a Float never reaches epoll_wait: the call raises
\* from make_timeout, and that step takes no event from the ready list,
\* changes no entry and resumes no fiber.
C12_AbsentAndInvalid ==
  [][ /\ sel'.pc = "waiting" =>
           /\ sel'.duration.kind # "other"
           /\ sel'.duration.kind = "nil" => sel'.timeout = -1
      /\ (out'.kind = "raised" /\ out'.op = "make_timeout") =>
           /\ sel.pc = "idle" /\ sel'.pc = "idle"
           /\ interest' = interest /\ rdllist' = rdllist
           /\ fstate' = fstate /\ frame' = frame /\ fdtable' = fdtable
    ]_vars

\* C12 witness: make_timeout raised while a fiber is suspended and its event
\* is in the ready list
C12_Witness ==
  /\ out.kind = "raised" /\ out.op = "make_timeout"
  /\ \E w \in Suspended : <<FileOf(w), frame[w].descriptor>> \in SeqRange(rdllist)

\* C13: the teardown of a backend raises nothing and transfers to no fiber:
\* the fibers suspended in io_wait stay suspended, with their frames, and
\* the step lets its caller observe nothing.
C13_TeardownSafety ==
  [][ (bstate # "freed" /\ bstate' = "freed") =>
        /\ out'.kind = "none"
        /\ fstate' = fstate /\ frame' = frame /\ sel' = sel
    ]_vars

\* C13 witness: the backend was freed with its queue open while a fiber is
\* suspended in io_wait
C13_Witness ==
  bstate = "freed" /\ descriptor >= 0 /\ Suspended # {}

\* the descriptor numbers that name a queue this backend has opened and
\* nobody has closed
OpenQueues == {n \in DOMAIN fdtable : fdtable[n] = -1}

\* C14: whatever the sequence of allocate, initialize and teardown on a
\* backend, the only queue open is the one the handle names, and no queue
\* is open once the backend is freed (every queue opened is closed by the
\* teardown, none is leaked).
C14_HandleClosedOnce ==
  /\ bstate = "freed" => OpenQueues = {}
  /\ bstate # "freed" => OpenQueues \subseteq {descriptor}

\* the handle select passes to epoll_wait names no open queue
BadQueue == descriptor \notin DOMAIN fdtable \/ fdtable[descriptor] # -1

\* C15: when epoll_wait returns a negative count (here: the handle names
\* no queue, or the kernel reports an error), select raises for
\* epoll_wait and the call is over: it never enters the loop with a
\* negative count, waits no second time, takes no event and transfers to
\* no fiber.
C15_WaitFailure ==
  [][ /\ (/\ sel.pc = "waiting" /\ sel'.pc # "waiting"
          /\ \/ BadQueue
             \/ sel'.count < 0
             \/ out'.kind = "raised" /\ out'.value < 0) =>
           /\ out'.kind = "raised" /\ out'.op = "epoll_wait"
           /\ sel'.pc = "idle" /\ sel'.count = 0 /\ sel'.log = <<>>
           /\ interest' = interest /\ rdllist' = rdllist
           /\ fstate' = fstate /\ frame' = frame
      /\ (out.kind = "raised" /\ sel'.pc = "waiting") => sel.pc = "idle"
    ]_vars

\* C15 witness: epoll_wait failed while the event of a suspended fiber was
\* in the ready list, and select raised
C15_Witness ==
  /\ out.kind = "raised" /\ out.op = "epoll_wait" /\ out.value = -1
  /\ \E w \in Suspended : <<FileOf(w), frame[w].descriptor>> \in SeqRange(rdllist)

\* the open descriptors that are neither the descriptor of an IO object
\* nor the queue: duplicates made by io_wait
OpenDuplicates ==
  {n \in DOMAIN fdtable : fdtable[n] >= 1 /\ n \notin {Fileno(io) : io \in IOs}}

\* C16: every duplicate that is open belongs to an io_wait call that has
\* not ended (its fiber is suspended in the call, the duplicate in its
\* frame): a call that returned or raised has closed the duplicate it made.
C16_DuplicateReleased ==
  \A n \in OpenDuplicates : \E w \in Suspended : frame[w].duplicate = n

\* C17: the loop of select walks the batch in the order of the events
\* array, one transfer per step: step i transfers to the fiber of the i-th
\* event delivered and to no other; the batch is the head of the ready
\* list in its order; and select returns the number of events delivered
\* once it has transferred to all of them.
C17_BatchOrder ==
  [][ /\ (sel.pc = "waiting" /\ sel'.pc = "loop") =>
           /\ sel'.count = Len(sel'.events)
           /\ \A j \in 1..sel'.count : sel'.events[j].key = rdllist[j]
      /\ (sel.pc = "loop" /\ sel'.pc = "loop" /\ sel' # sel) =>
           /\ sel'.i = sel.i + 1
           /\ out'.kind = "resumed" /\ out'.w = sel.events[sel'.i].ptr
           /\ sel'.log = Append(sel.log, out'.w)
           /\ {w \in DOMAIN fstate : fstate'[w] # fstate[w]} \subseteq {out'.w}
      /\ (sel.pc = "loop" /\ sel'.pc = "idle") =>
           /\ sel.i = Len(sel.events)
           /\ out'.kind = "returned" /\ out'.value = Len(sel.events)
    ]_vars

\* C17 witness: a batch of two events whose second fiber registered first
\* (and has the lower number) was walked in the order of delivery
C17_Witness ==
  /\ sel.pc = "loop" /\ sel.count = 2 /\ sel.i = 2
  /\ sel.log = <<sel.events[1].ptr, sel.events[2].ptr>>
  /\ sel.log[1] > sel.log[2]
  /\ sel.events[1].key[2] > sel.events[2].key[2]

\* C18: a fiber becomes suspended in io_wait in the very step that adds
\* its armed entry to the interest list, and in no other: a call whose
\* registration fails raises without transferring to the loop and adds
\* nothing, and a suspended fiber leaves io_wait only when select
\* transfers to it (one transfer to the loop per call).
C18_SuspensionDiscipline ==
  [][ /\ \A w \in DOMAIN fstate :
           /\ (fstate[w] # "suspended" /\ fstate'[w] = "suspended") <=>
                \E k \in DOMAIN interest' :
                  /\ interest'[k].armed /\ interest'[k].owner = w
                  /\ k \notin DOMAIN interest \/ interest[k] # interest'[k]
           /\ (fstate[w] # "suspended" /\ fstate'[w] = "suspended") =>
                /\ out'.kind = "suspended" /\ out'.w = w
                /\ <<fdtable'[frame'[w].descriptor], frame'[w].descriptor>>
                     \in DOMAIN interest'
           /\ (fstate[w] = "suspended" /\ fstate'[w] # "suspended") =>
                out'.kind = "resumed" /\ out'.w = w
      /\ out'.kind = "failed" => fstate' = fstate /\ interest' = interest
    ]_vars

\* C18 witness: a call registered its fiber on a duplicate and transferred
\* to the loop; its entry is in the interest list
C18_Witness ==
  /\ out.kind = "suspended" /\ out.call = "retry"
  /\ fstate[out.w] = "suspended" /\ frame[out.w].duplicate >= 0
  /\ <<FileOf(out.w), frame[out.w].duplicate>> \in DOMAIN interest

\* C19: the entry a fiber is suspended on asks for EPOLLIN exactly when
\* bit 1 of its mask is set, EPOLLPRI exactly when bit 2 is set, EPOLLOUT
\* exactly when bit 4 is set, and always for EPOLLRDHUP and EPOLLONESHOT:
\* only the mask modulo 8 counts (the other bits, and the sign, change
\* nothing), and the mask 0 asks for EPOLLRDHUP and EPOLLONESHOT alone.
C19_MaskTranslation ==
  \A w \in Suspended :
    LET k == <<FileOf(w), frame[w].descriptor>>
        low == frame[w].mask % 8
    IN (k \in DOMAIN interest /\ interest[k].armed) =>
         interest[k].events =
           (IF low \in {1, 3, 5, 7} THEN {"EPOLLIN"} ELSE {})
           \cup (IF low \in {2, 3, 6, 7} THEN {"EPOLLPRI"} ELSE {})
           \cup (IF low \in {4, 5, 6, 7} THEN {"EPOLLOUT"} ELSE {})
           \cup {"EPOLLRDHUP", "EPOLLONESHOT"}

\* C19 witness: a fiber is suspended with the mask 13 (READABLE, WRITABLE
\* and the bit 8) on an armed entry that asks for EPOLLIN and EPOLLOUT
C19_Witness ==
  \E w \in Suspended :
    /\ frame[w].mask = 13
    /\ <<FileOf(w), frame[w].descriptor>> \in DOMAIN interest
    /\ interest[<<FileOf(w), frame[w].descriptor>>].events =
         {"EPOLLIN", "EPOLLOUT", "EPOLLRDHUP", "EPOLLONESHOT"}

\* C20: the batch of a select call is what its one epoll_wait delivered:
\* while the loop runs, the events and the count stay as they are,
\* whatever the fibers it transfers to do. A fiber that calls io_wait
\* again during the loop gets an entry that is no event of the batch; the
\* loop goes on with the next event of the batch, transfers to no fiber a
\* second time in the same call, and select returns the count of the
\* wait.
C20_BatchIsSnapshot ==
  [][ sel.pc = "loop" =>
        /\ sel'.pc = "loop" => sel'.events = sel.events /\ sel'.count = sel.count
        /\ out'.kind = "suspended" =>
             /\ out'.w \in SeqRange(sel.log) /\ sel' = sel
             /\ \A j \in (sel.i + 1)..sel.count :
                  /\ sel.events[j].ptr # out'.w
                  /\ sel.events[j].key #
                       <<fdtable'[frame'[out'.w].descriptor], frame'[out'.w].descriptor>>
        /\ (sel'.pc = "loop" /\ sel'.i # sel.i) =>
             /\ out'.kind = "resumed"
             /\ out'.w = sel.events[sel.i + 1].ptr
             /\ out'.w \notin SeqRange(sel.log)
        /\ sel'.pc = "idle" =>
             /\ out'.kind = "returned" /\ out'.value = sel.count
             /\ fstate' = fstate /\ rdllist' = rdllist
    ]_vars

\* C20 witness: the first fiber of a batch of two has called io_wait again
\* and is suspended on a new entry that is ready, and the loop has gone on
\* to the second fiber of the batch
C20_Witness ==
  /\ sel.pc = "loop" /\ sel.count = 2 /\ sel.i = 2
  /\ fstate[sel.log[1]] = "suspended" /\ fstate[sel.log[2]] = "running"
  /\ <<FileOf(sel.log[1]), frame[sel.log[1]].descriptor>> \in SeqRange(rdllist)

====
